---------------------------- MODULE Spec2Model ----------------------------
(***************************************************************************)
(* Model of BFGS算法.py: golden_section_for_line_search, partial_derivative *)
(* and bfgs_algorithm.                                                     *)
(*                                                                         *)
(* Python floats are modelled as exact rationals: the rounding of a float  *)
(* operation is not modelled.  A rational is a record [n, d, e] with value *)
(* n / (d * Base^e); n is a signed and d a positive arbitrary-precision    *)
(* integer, because the line search of bfgs_algorithm runs with the        *)
(* precision 1e-6 on [0, 3] and needs more than 25 rounds, each of which   *)
(* multiplies by 0.382.                                                    *)
(***************************************************************************)
EXTENDS Integers, Sequences, FiniteSets, TLC

(***************************************************************************)
(* State.                                                                  *)
(***************************************************************************)
VARIABLES
    caller,    \* "main": a direct call of the line search; "bfgs": a call of bfgs_algorithm
    pc,        \* "loop": at the head of the for loop; "search": in the while loop of the
               \* line search; "done": the call has returned
    target,    \* direct call: the function searched, [kind |-> "quad", c |-> centre]
    args,      \* the arguments a0, b0 of the running line search
    geps,      \* the epsilon of the line search
    gs,        \* a0, b0, a1, b1, fa, fb of the line search, and the number n of calls
               \* of func it has made
    ret,       \* direct call: the value returned
    evals,     \* calls of func made by the running line search
    rounds,    \* rounds of the while loop made by the running line search
    nleft,     \* of these, rounds through the branch fa <= fb
    func,      \* bfgs_algorithm: the objective
    epsilon,   \* its epsilon
    distance,  \* its distance
    maximum,   \* its maximum
    k,         \* the loop variable: iterations begun before the current one
    B0,        \* the matrix B0
    x0,        \* the point x0
    g0,        \* the gradient at x0 (nabla)
    pk,        \* the direction pk
    searches,  \* calls of golden_section_for_line_search made so far
    failed,    \* gradient-norm checks that found the norm not below epsilon
    last,      \* the operands and result of the latest update of B0
    result,    \* the value returned: [none |-> TRUE, pt |-> << >>] is None
    outcome    \* how the call ended: "check0", "check1" (a gradient-norm check) or "exhausted"

lsvars == <<target, args, geps, gs, ret, evals, rounds, nleft>>

bfgsvars == <<func, epsilon, distance, maximum, k, B0, x0, g0, pk, searches, failed,
              last, result, outcome>>

vars == <<caller, pc, lsvars, bfgsvars>>

(***************************************************************************)
(* Every operator F that has a definition FImpl is applied through Call:   *)
(* F(x, y) is Call("F", <<x, y>>), which is FImpl(x, y) with the arguments *)
(* evaluated first, as Python evaluates the arguments of a call.  Going    *)
(* through the one recursive operator Call also keeps the expansion of the *)
(* actions that TLC builds small.                                          *)
(***************************************************************************)
RECURSIVE Call(_, _)

(***************************************************************************)
(* Arbitrary-precision naturals: little-endian sequences of limbs in       *)
(* 0 .. Base-1 without leading (high-order) zero limbs; << >> is zero.     *)
(***************************************************************************)
Base == 10 * 10 * 10

Max2(i, j) == IF i >= j THEN i ELSE j

Min2(i, j) == IF i <= j THEN i ELSE j

Limb(a, i) == IF i <= Len(a) THEN a[i] ELSE 0

\* index of the highest nonzero limb of a within lo..hi, 0 when there is none
RECURSIVE NTop(_, _, _)
NTop(a, lo, hi) ==
    IF lo > hi THEN 0
    ELSE IF lo = hi THEN (IF a[lo] # 0 THEN lo ELSE 0)
    ELSE LET mid == (lo + hi) \div 2
             up  == NTop(a, mid + 1, hi)
         IN  IF up # 0 THEN up ELSE NTop(a, lo, mid)

NStrip(a) == Call("NStrip", <<a>>)

NStripImpl(a) == SubSeq(a, 1, NTop(a, 1, Len(a)))

RECURSIVE NOfInt(_)
NOfInt(i) == IF i = 0 THEN << >> ELSE <<i % Base>> \o NOfInt(i \div Base)

\* carry propagation over the columns lo..hi with incoming carry c (which may be
\* negative: a borrow): [c |-> outgoing carry, s |-> the limbs of lo..hi]
RECURSIVE NCarry(_, _, _, _)
NCarry(cols, lo, hi, c) ==
    IF lo > hi THEN [c |-> c, s |-> << >>]
    ELSE IF lo = hi
    THEN LET t == cols[lo] + c
         IN  [c |-> (t - (t % Base)) \div Base, s |-> <<t % Base>>]
    ELSE LET mid == (lo + hi) \div 2
             l   == NCarry(cols, lo, mid, c)
             r   == NCarry(cols, mid + 1, hi, l.c)
         IN  [s |-> l.s \o r.s, c |-> r.c]

\* the natural whose columns (limb positions with values beyond a limb) are cols
NOfCols(cols) == Call("NOfCols", <<cols>>)

NOfColsImpl(cols) ==
    LET r == NCarry(cols, 1, Len(cols), 0)
    IN  NStrip(r.s \o NOfInt(r.c))

NAdd(a, b) == Call("NAdd", <<a, b>>)

NAddImpl(a, b) ==
    NOfCols([i \in 1..Max2(Len(a), Len(b)) |-> Limb(a, i) + Limb(b, i)])

\* comparison of the limbs lo..hi of two magnitudes of equal length: -1, 0 or 1
RECURSIVE NCmpFrom(_, _, _, _)
NCmpFrom(a, b, lo, hi) ==
    IF lo > hi THEN 0
    ELSE IF lo = hi THEN (IF a[lo] < b[lo] THEN -1 ELSE IF a[lo] > b[lo] THEN 1 ELSE 0)
    ELSE LET mid == (lo + hi) \div 2
             up  == NCmpFrom(a, b, mid + 1, hi)
         IN  IF up # 0 THEN up ELSE NCmpFrom(a, b, lo, mid)

NCmp(a, b) == Call("NCmp", <<a, b>>)

NCmpImpl(a, b) == IF Len(a) < Len(b) THEN -1
              ELSE IF Len(a) > Len(b) THEN 1
              ELSE NCmpFrom(a, b, 1, Len(a))

\* a - b for a >= b
NSub(a, b) == Call("NSub", <<a, b>>)

NSubImpl(a, b) == NOfCols([i \in 1..Len(a) |-> a[i] - Limb(b, i)])

\* column k of the product: sum of a[i] * b[k+1-i] for i in lo..hi
RECURSIVE NColSum(_, _, _, _, _)
NColSum(a, b, col, lo, hi) ==
    IF lo > hi THEN 0
    ELSE IF lo = hi THEN a[lo] * b[col + 1 - lo]
    ELSE LET mid == (lo + hi) \div 2
         IN  NColSum(a, b, col, lo, mid) + NColSum(a, b, col, mid + 1, hi)

NMul(a, b) == Call("NMul", <<a, b>>)

NMulImpl(a, b) ==
    IF a = << >> \/ b = << >> THEN << >>
    ELSE NOfCols([col \in 1..(Len(a) + Len(b) - 1) |->
                     NColSum(a, b, col, Max2(1, col + 1 - Len(b)), Min2(col, Len(a)))])

\* number of low-order zero limbs of a # 0 within lo..hi (hi - lo + 1 when all are zero)
RECURSIVE NLowZeros(_, _, _)
NLowZeros(a, lo, hi) ==
    IF lo > hi THEN 0
    ELSE IF lo = hi THEN (IF a[lo] = 0 THEN 1 ELSE 0)
    ELSE LET mid == (lo + hi) \div 2
             dn  == NLowZeros(a, lo, mid)
         IN  IF dn < mid - lo + 1 THEN dn ELSE dn + NLowZeros(a, mid + 1, hi)

\* a * q for a machine integer 0 <= q < Base
NMulSmall(a, q) == Call("NMulSmall", <<a, q>>)

NMulSmallImpl(a, q) == IF q = 0 THEN << >> ELSE NOfCols([i \in 1..Len(a) |-> a[i] * q])

\* a * Base^z
NShift(a, z) == Call("NShift", <<a, z>>)

NShiftImpl(a, z) == IF a = << >> THEN << >> ELSE [i \in 1..z |-> 0] \o a

\* the next digit of a long division: the largest q with q * b <= cur, for
\* cur < b * Base; the leading limbs of cur and b leave at most three candidates
NQuotDigit(cur, b) == Call("NQuotDigit", <<cur, b>>)

NQuotDigitImpl(cur, b) ==
    IF NCmp(cur, b) < 0 THEN 0
    ELSE IF Len(b) = 1 THEN (cur[1] + Base * Limb(cur, 2)) \div b[1]
    ELSE LET L   == Len(b)
             bt  == b[L - 1] + Base * b[L]
             ct  == cur[L - 1] + Base * cur[L] + Base * Base * Limb(cur, L + 1)
             qlo == ct \div (bt + 1)
             qhi == Min2(Base - 1, (ct + 1) \div bt)
         IN  CHOOSE q \in qlo..qhi :
                 /\ NCmp(NMulSmall(b, q), cur) <= 0
                 /\ q = qhi \/ NCmp(NMulSmall(b, q + 1), cur) > 0

\* long division of the limbs lo..hi of a by b, from the highest limb down, with
\* the remainder r of the limbs above: [q |-> the quotient limbs, highest first,
\* r |-> the remainder]
RECURSIVE NDivRange(_, _, _, _, _)
NDivRange(a, b, lo, hi, r) ==
    IF lo = hi
    THEN LET cur == NStrip(<<a[lo]>> \o r)
             q   == NQuotDigit(cur, b)
         IN  [q |-> <<q>>, r |-> IF q = 0 THEN cur ELSE NSub(cur, NMulSmall(b, q))]
    ELSE LET mid == (lo + hi) \div 2
             up  == NDivRange(a, b, mid + 1, hi, r)
             dn  == NDivRange(a, b, lo, mid, up.r)
         IN  [q |-> up.q \o dn.q, r |-> dn.r]

\* quotient and remainder of a by b # 0: the Len(b) - 1 highest limbs of a are
\* below b and start the division as its remainder
NDivMod(a, b) == Call("NDivMod", <<a, b>>)

NDivModImpl(a, b) ==
    IF NCmp(a, b) < 0 THEN [q |-> << >>, r |-> a]
    ELSE LET top == Len(a) - Len(b) + 1
             res == NDivRange(a, b, 1, top, SubSeq(a, top + 1, Len(a)))
             n   == Len(res.q)
         IN  [q |-> NStrip([i \in 1..n |-> res.q[n + 1 - i]]), r |-> res.r]

\* Euclid's algorithm, at most fuel steps at a time
RECURSIVE NGcdSteps(_, _, _)
NGcdSteps(a, b, fuel) ==
    IF b = << >> \/ fuel = 0 THEN <<a, b>>
    ELSE NGcdSteps(b, NDivMod(a, b).r, fuel - 1)

RECURSIVE NGcdPair(_)
NGcdPair(ab) == IF ab[2] = << >> THEN ab[1] ELSE NGcdPair(NGcdSteps(ab[1], ab[2], 50))

NGcd(a, b) == Call("NGcd", <<a, b>>)

NGcdImpl(a, b) == NGcdPair(<<a, b>>)

(***************************************************************************)
(* Signed integers [neg, m] and rationals [n, d, e] of value               *)
(* n / (d * Base^e): d is a natural whose lowest limb is not zero, and the *)
(* power of Base common to n and Base^e is cancelled, so a decimal         *)
(* fraction has d = 1.  QRed cancels the factors common to n and d; the    *)
(* operations do not, so equal numbers may have several representations    *)
(* and are compared with QCmp, never with =.                               *)
(***************************************************************************)
ZMk(neg, m) == [neg |-> neg /\ m # << >>, m |-> m]

ZOfInt(i) == Call("ZOfInt", <<i>>)

ZOfIntImpl(i) == IF i < 0 THEN ZMk(TRUE, NOfInt(-i)) ELSE ZMk(FALSE, NOfInt(i))

ZNeg(a) == Call("ZNeg", <<a>>)

ZNegImpl(a) == ZMk(~a.neg, a.m)

ZAdd(a, b) == Call("ZAdd", <<a, b>>)

ZAddImpl(a, b) ==
    IF a.neg = b.neg THEN ZMk(a.neg, NAdd(a.m, b.m))
    ELSE IF NCmp(a.m, b.m) >= 0 THEN ZMk(a.neg, NSub(a.m, b.m))
    ELSE ZMk(b.neg, NSub(b.m, a.m))

ZShift(a, z) == Call("ZShift", <<a, z>>)

ZShiftImpl(a, z) == ZMk(a.neg, NShift(a.m, z))

ZMulN(a, m) == Call("ZMulN", <<a, m>>)

ZMulNImpl(a, m) == ZMk(a.neg, NMul(a.m, m))

ZCmp(a, b) == Call("ZCmp", <<a, b>>)

ZCmpImpl(a, b) ==
    IF a.neg /\ ~b.neg THEN -1
    ELSE IF ~a.neg /\ b.neg THEN 1
    ELSE IF a.neg THEN NCmp(b.m, a.m)
    ELSE NCmp(a.m, b.m)

\* n / (d * Base^e) for any natural d # 0 and any e >= 0
QMk(n, d, e) == Call("QMk", <<n, d, e>>)

QMkImpl(n, d, e) ==
    IF n.m = << >> THEN [n |-> n, d |-> <<1>>, e |-> 0]
    ELSE LET zd == NLowZeros(d, 1, Len(d))
             c  == Min2(NLowZeros(n.m, 1, Len(n.m)), zd + e)
         IN  [n |-> ZMk(n.neg, SubSeq(n.m, c + 1, Len(n.m))),
              d |-> SubSeq(d, zd + 1, Len(d)),
              e |-> zd + e - c]

\* the rational i / j of two machine integers, j > 0
QOf(i, j) == Call("QOf", <<i, j>>)

QOfImpl(i, j) == QMk(ZOfInt(i), NOfInt(j), 0)

QNeg(a) == Call("QNeg", <<a>>)

QNegImpl(a) == [n |-> ZNeg(a.n), d |-> a.d, e |-> a.e]

QAdd(a, b) == Call("QAdd", <<a, b>>)

QAddImpl(a, b) ==
    LET E == Max2(a.e, b.e)
    IN  IF a.d = b.d
        THEN QMk(ZAdd(ZShift(a.n, E - a.e), ZShift(b.n, E - b.e)), a.d, E)
        ELSE QMk(ZAdd(ZShift(ZMulN(a.n, b.d), E - a.e), ZShift(ZMulN(b.n, a.d), E - b.e)),
                 NMul(a.d, b.d), E)

QSub(a, b) == Call("QSub", <<a, b>>)

QSubImpl(a, b) == QAdd(a, QNeg(b))

QMul(a, b) == Call("QMul", <<a, b>>)

QMulImpl(a, b) ==
    QMk(ZMk(a.n.neg # b.n.neg, NMul(a.n.m, b.n.m)), NMul(a.d, b.d), a.e + b.e)

\* a / b for b # 0
QDiv(a, b) == Call("QDiv", <<a, b>>)

QDivImpl(a, b) ==
    QMk(ZMk(a.n.neg # b.n.neg, NShift(NMul(a.n.m, b.d), b.e)), NMul(a.d, b.n.m), a.e)

\* -1, 0 or 1 as a < b, a = b, a > b
QCmp(a, b) == Call("QCmp", <<a, b>>)

QCmpImpl(a, b) ==
    LET E == Max2(a.e, b.e)
    IN  IF a.d = b.d
        THEN ZCmp(ZShift(a.n, E - a.e), ZShift(b.n, E - b.e))
        ELSE ZCmp(ZShift(ZMulN(a.n, b.d), E - a.e), ZShift(ZMulN(b.n, a.d), E - b.e))

QLt(a, b) == Call("QLt", <<a, b>>)

QLtImpl(a, b) == QCmp(a, b) < 0

QLe(a, b) == Call("QLe", <<a, b>>)

QLeImpl(a, b) == QCmp(a, b) <= 0

QEq(a, b) == Call("QEq", <<a, b>>)

QEqImpl(a, b) == QCmp(a, b) = 0

QAbs(a) == Call("QAbs", <<a>>)

QAbsImpl(a) == [n |-> ZMk(FALSE, a.n.m), d |-> a.d, e |-> a.e]

QZero == QOf(0, 1)

\* the same number with the factors common to numerator and denominator cancelled
QRed(a) == Call("QRed", <<a>>)

QRedImpl(a) ==
    IF a.d = <<1>> \/ a.n.m = << >> THEN a
    ELSE LET g == NGcd(a.n.m, a.d)
         IN  IF g = <<1>> THEN a
             ELSE QMk(ZMk(a.n.neg, NDivMod(a.n.m, g).q), NDivMod(a.d, g).q, a.e)

\* the sequence (tuple) with the elements of the function v on 1..n, each element
\* evaluated once
Vec(v) == v \o << >>

Mat(M) == Call("Mat", <<M>>)

MatImpl(M) == Vec([i \in 1..Len(M) |-> Vec(M[i])])

\* the same vector or matrix with every entry in lowest terms
VecRed(v) == Call("VecRed", <<v>>)

VecRedImpl(v) == Vec([i \in 1..Len(v) |-> QRed(v[i])])

MatRed(M) == Call("MatRed", <<M>>)

MatRedImpl(M) == Vec([i \in 1..Len(M) |-> VecRed(M[i])])

(***************************************************************************)
(* golden_section_for_line_search(func, a0, b0, epsilon)                   *)
(***************************************************************************)
\* the literal 0.382
Golden == QOf(382, 1000)

\* scalar objective sum_i w[i] * (x[i] + s[i])^2 / q, applied to the point xs:
\* lambda x: x[0] ** 2 is [w |-> <<1>>, s |-> <<0>>, q |-> 1]
RECURSIVE ObjectiveSum(_, _, _)
ObjectiveSum(fn, xs, i) ==
    IF i = 0 THEN QZero
    ELSE LET t == QAdd(xs[i], QOf(fn.s[i], 1))
         IN  QAdd(ObjectiveSum(fn, xs, i - 1), QMul(QOf(fn.w[i], 1), QMul(t, t)))

Objective(fn, xs) == Call("Objective", <<fn, xs>>)

ObjectiveImpl(fn, xs) == QDiv(ObjectiveSum(fn, xs, Len(xs)), QOf(fn.q, 1))

\* the closure f of bfgs_algorithm: the objective along pk from x0
Restriction(fn, xs, p, t) == Call("Restriction", <<fn, xs, p, t>>)

RestrictionImpl(fn, xs, p, t) ==
    Objective(fn, Vec([j \in 1..Len(xs) |-> QAdd(xs[j], QMul(t, p[j]))]))

\* the one-variable function handed to the search: f.kind = "quad" is
\* lambda x: (x - c) ** 2, f.kind = "f" is the closure of bfgs_algorithm
LineEval(f, t) == Call("LineEval", <<f, t>>)

LineEvalImpl(f, t) ==
    IF f.kind = "quad" THEN QMul(QSub(t, f.c), QSub(t, f.c))
    ELSE Restriction(f.func, f.x0, f.pk, t)

\* the two probes and their values before the loop; n counts the calls of func
GSStart(f, a0, b0) == Call("GSStart", <<f, a0, b0>>)

GSStartImpl(f, a0, b0) ==
    LET a1 == QAdd(a0, QMul(Golden, QSub(b0, a0)))
        b1 == QSub(b0, QMul(Golden, QSub(b0, a0)))
    IN  [a0 |-> a0, b0 |-> b0, a1 |-> a1, b1 |-> b1,
         fa |-> LineEval(f, a1), fb |-> LineEval(f, b1), n |-> 2]

\* the loop condition with its operands exchanged, a1 - b1 > epsilon: with it a search
\* returns while its probes are still apart
GSContinueSwapped(g, eps) == QLt(eps, QSub(g.a1, g.b1))

\* the loop condition b1 - a1 > epsilon
GSContinue(g, eps) == Call("GSContinue", <<g, eps>>)

GSContinueImpl(g, eps) == QLt(eps, QSub(g.b1, g.a1))

\* the branch fa <= fb without the assignment of fa to fb: the value kept for the right
\* probe is a stale one
GSLeftStale(f, g) ==
    LET b0 == g.b1
        a1 == QAdd(g.a0, QMul(Golden, QSub(b0, g.a0)))
    IN  [a0 |-> g.a0, b0 |-> b0, a1 |-> a1, b1 |-> g.a1,
         fa |-> LineEval(f, a1), fb |-> g.fb, n |-> g.n + 1]

\* the branch fa <= fb: the right part is discarded, a1 becomes the right probe
GSLeft(f, g) == Call("GSLeft", <<f, g>>)

GSLeftImpl(f, g) ==
    LET b0 == g.b1
        a1 == QAdd(g.a0, QMul(Golden, QSub(b0, g.a0)))
    IN  [a0 |-> g.a0, b0 |-> b0, a1 |-> a1, b1 |-> g.a1,
         fa |-> LineEval(f, a1), fb |-> g.fa, n |-> g.n + 1]

\* the branch fa > fb: the left part is discarded, b1 becomes the left probe
GSRight(f, g) == Call("GSRight", <<f, g>>)

GSRightImpl(f, g) ==
    LET a0 == g.a1
        b1 == QSub(g.b0, QMul(Golden, QSub(g.b0, a0)))
    IN  [a0 |-> a0, b0 |-> g.b0, a1 |-> g.b1, b1 |-> b1,
         fa |-> g.fb, fb |-> LineEval(f, b1), n |-> g.n + 1]

GSGoesLeft(g) == Call("GSGoesLeft", <<g>>)

GSGoesLeftImpl(g) == QLe(g.fa, g.fb)

\* the value returned: (a1 + b1) / 2
GSResult(g) == Call("GSResult", <<g>>)

GSResultImpl(g) == QDiv(QAdd(g.a1, g.b1), QOf(2, 1))

(***************************************************************************)
(* partial_derivative and the linear algebra of bfgs_algorithm.  A vector  *)
(* (a one-column np.matrix) is a sequence of rationals, a matrix a         *)
(* sequence of rows.                                                       *)
(***************************************************************************)
\* the default dx=1e-6 of partial_derivative
Dx == QOf(1, 1000000)

\* scipy.misc.derivative(f, arr[i], dx=dx) with its defaults n=1, order=3: the
\* central difference (-f(x - dx) / 2 + 0 * f(x) + f(x + dx) / 2) / dx of the
\* objective in coordinate i, the other coordinates held at arr
Derivative(fn, arr, i) == Call("Derivative", <<fn, arr, i>>)

DerivativeImpl(fn, arr, i) ==
    LET at(v) == Objective(fn, [arr EXCEPT ![i] = v])
    IN  QDiv(QAdd(QMul(QOf(-1, 2), at(QSub(arr[i], Dx))),
                  QMul(QOf(1, 2), at(QAdd(arr[i], Dx)))),
             Dx)

PartialDerivative(fn, arr) == Call("PartialDerivative", <<fn, arr>>)

PartialDerivativeImpl(fn, arr) == VecRed([i \in 1..Len(arr) |-> Derivative(fn, arr, i)])

RECURSIVE QSum(_, _)
QSum(v, i) == IF i = 0 THEN QZero ELSE QAdd(QSum(v, i - 1), v[i])

Dot(u, v) == Call("Dot", <<u, v>>)

DotImpl(u, v) == QSum([i \in 1..Len(u) |-> QMul(u[i], v[i])], Len(u))

\* pow(sum([nabla[i] ** 2 ...]), 0.5) < epsilon: a square root is never negative,
\* and is below a positive epsilon exactly when its square is below epsilon^2
NormBelow(nabla, eps) == Call("NormBelow", <<nabla, eps>>)

NormBelowImpl(nabla, eps) ==
    /\ QLt(QZero, eps)
    /\ QLt(Dot(nabla, nabla), QMul(eps, eps))

Identity(n) == Call("Identity", <<n>>)

IdentityImpl(n) == Mat([i \in 1..n |-> [j \in 1..n |-> IF i = j THEN QOf(1, 1) ELSE QZero]])

MatVec(M, v) == Call("MatVec", <<M, v>>)

MatVecImpl(M, v) == Vec([i \in 1..Len(M) |-> Dot(M[i], v)])

VecMat(v, M) == Call("VecMat", <<v, M>>)

VecMatImpl(v, M) == Vec([j \in 1..Len(M) |-> Dot(v, [i \in 1..Len(M) |-> M[i][j]])])

Outer(u, v) == Call("Outer", <<u, v>>)

OuterImpl(u, v) == Mat([i \in 1..Len(u) |-> [j \in 1..Len(v) |-> QMul(u[i], v[j])]])

MatMul(M, N) == Call("MatMul", <<M, N>>)

MatMulImpl(M, N) == Mat([i \in 1..Len(M) |-> VecMat(M[i], N)])

MatAdd(M, N) == Call("MatAdd", <<M, N>>)

MatAddImpl(M, N) == Mat([i \in 1..Len(M) |-> [j \in 1..Len(M) |-> QAdd(M[i][j], N[i][j])]])

MatSub(M, N) == Call("MatSub", <<M, N>>)

MatSubImpl(M, N) == Mat([i \in 1..Len(M) |-> [j \in 1..Len(M) |-> QSub(M[i][j], N[i][j])]])

\* a matrix divided by a 1 x 1 matrix: every entry divided by its one entry
MatScale(M, c) == Call("MatScale", <<M, c>>)

MatScaleImpl(M, c) == Mat([i \in 1..Len(M) |-> [j \in 1..Len(M) |-> QDiv(M[i][j], c)]])

VecNeg(v) == Call("VecNeg", <<v>>)

VecNegImpl(v) == Vec([i \in 1..Len(v) |-> QNeg(v[i])])

VecSub(u, v) == Call("VecSub", <<u, v>>)

VecSubImpl(u, v) == Vec([i \in 1..Len(u) |-> QSub(u[i], v[i])])

\* B0 ** -1 of an invertible matrix with one or two rows
MatInv(M) == Call("MatInv", <<M>>)

MatInvImpl(M) ==
    IF Len(M) = 1 THEN <<(<<QDiv(QOf(1, 1), M[1][1])>>)>>
    ELSE LET det == QSub(QMul(M[1][1], M[2][2]), QMul(M[1][2], M[2][1]))
         IN  << <<QDiv(M[2][2], det), QDiv(QNeg(M[1][2]), det)>>,
                <<QDiv(QNeg(M[2][1]), det), QDiv(M[1][1], det)>> >>

\* pk: -B0 * g0 in the first iteration, -(B0 ** -1) * g0 afterwards
Direction(kk, B, g) == Call("Direction", <<kk, B, g>>)

DirectionImpl(kk, B, g) ==
    VecRed(IF kk = 0 THEN VecNeg(MatVec(B, g)) ELSE VecNeg(MatVec(MatInv(B), g)))

\* x1 = [x0[j] + lk * pk[j]] and dk = [lk * pk[j]]
StepVector(lk, p) == Call("StepVector", <<lk, p>>)

StepVectorImpl(lk, p) == Vec([j \in 1..Len(p) |-> QMul(lk, p[j])])

VecAdd(u, v) == Call("VecAdd", <<u, v>>)

VecAddImpl(u, v) == Vec([i \in 1..Len(u) |-> QAdd(u[i], v[i])])

\* a loop over range(maximum + 1): one iteration too many
LoopContinuesInclusive(kk, m) == kk <= m

\* for k in range(maximum): the loop body runs for k
LoopContinues(kk, m) == kk < m

\* B1 = B0 + (yk * yk.T) / (yk.T * dk) + (B0 * dk * dk.T * B0) / (dk.T * B0 * dk)
Update(B, yk, dk) == Call("Update", <<B, yk, dk>>)

UpdateImpl(B, yk, dk) ==
    MatRed(MatAdd(MatAdd(B, MatScale(Outer(yk, yk), Dot(yk, dk))),
                  MatScale(MatMul(Outer(MatVec(B, dk), dk), B), Dot(VecMat(dk, B), dk))))

(***************************************************************************)
(* Bounds and inputs.                                                      *)
(***************************************************************************)
\* a line search is followed for at most MaxRounds rounds
MaxRounds == 40

\* bfgs_algorithm is called with maximum in 0 .. MaxMaximum
MaxMaximum == 3

NoPoint == << >>

None == [none |-> TRUE, pt |-> NoPoint]

Point(xs) == [none |-> FALSE, pt |-> xs]

NoSearch == [a0 |-> QZero, b0 |-> QZero, a1 |-> QZero, b1 |-> QZero, fa |-> QZero,
             fb |-> QZero, n |-> 0]

NoUpdate == [made |-> FALSE, B |-> << >>, yk |-> << >>, dk |-> << >>, B1 |-> << >>]

\* direct calls of the line search: intervals a0 < b0, precisions, centres c
Intervals == {<<QOf(0, 1), QOf(1, 1)>>, <<QOf(0, 1), QOf(3, 1)>>}

Precisions == {QOf(1, 4), QOf(1, 10), QOf(1, 1000000), QOf(0, 1), QOf(-1, 1000000000)}

Centres == {QOf(0, 1), QOf(1, 2), QOf(1, 1), QOf(2, 1)}

\* calls of bfgs_algorithm: the two objectives of __main__ and (x - 10)^2 / 4
Objectives == {[w |-> <<1>>, s |-> <<0>>, q |-> 1],
               [w |-> <<1, 1>>, s |-> <<3, 4>>, q |-> 2],
               [w |-> <<1>>, s |-> <<-10>>, q |-> 4]}

\* the default epsilon=1e-6 and a coarse one
Epsilons == {QOf(1, 1000000), QOf(10, 1)}

\* the default distance=3
Distances == {QOf(3, 1)}

\* the fixed precision epsilon=1e-6 of the line searches of bfgs_algorithm
LineSearchEpsilon == QOf(1, 1000000)

(***************************************************************************)
(* A direct call golden_section_for_line_search(target, a0, b0, geps).     *)
(***************************************************************************)
IdleBfgs ==
    /\ func = [w |-> << >>, s |-> << >>, q |-> 1]
    /\ epsilon = QZero /\ distance = QZero /\ maximum = 0 /\ k = 0
    /\ B0 = << >> /\ x0 = << >> /\ g0 = << >> /\ pk = << >>
    /\ searches = 0 /\ failed = 0 /\ last = NoUpdate /\ result = None /\ outcome = "none"

InitGS ==
    /\ caller = "main"
    /\ pc = "search"
    /\ target \in [kind : {"quad"}, c : Centres]
    /\ geps \in Precisions
    /\ args \in Intervals
    /\ gs = GSStart(target, args[1], args[2])
    /\ ret = QZero
    /\ evals = gs.n
    /\ rounds = 0
    /\ nleft = 0
    /\ IdleBfgs

\* the function the running search evaluates
Searched == IF caller = "main" THEN target
            ELSE [kind |-> "f", func |-> func, x0 |-> x0, pk |-> pk]

\* one round of the while loop
GSRound ==
    /\ pc = "search"
    /\ GSContinue(gs, geps)
    /\ rounds < MaxRounds
    /\ gs' = IF GSGoesLeft(gs) THEN GSLeft(Searched, gs) ELSE GSRight(Searched, gs)
    /\ nleft' = IF GSGoesLeft(gs) THEN nleft + 1 ELSE nleft
    /\ evals' = gs'.n
    /\ rounds' = rounds + 1
    /\ UNCHANGED <<caller, pc, target, args, geps, ret, bfgsvars>>

\* the loop condition fails: the direct call returns
GSReturn ==
    /\ caller = "main"
    /\ pc = "search"
    /\ ~GSContinue(gs, geps)
    /\ ret' = GSResult(gs)
    /\ pc' = "done"
    /\ UNCHANGED <<caller, target, args, geps, gs, evals, rounds, nleft, bfgsvars>>

NextGS == GSRound \/ GSReturn

SpecGS == InitGS /\ [][NextGS]_vars

(***************************************************************************)
(* A call bfgs_algorithm(func, n_features, epsilon, distance, maximum),    *)
(* n_features being the number of arguments of func.                       *)
(***************************************************************************)
NFeatures(fn) == Len(fn.w)

Init ==
    /\ caller = "bfgs"
    /\ pc = "loop"
    /\ func \in Objectives
    /\ epsilon \in Epsilons
    /\ distance \in Distances
    /\ maximum \in 0..MaxMaximum
    /\ k = 0
    /\ B0 = Identity(NFeatures(func))
    /\ x0 = Vec([j \in 1..NFeatures(func) |-> QZero])
    /\ g0 = << >>
    /\ pk = << >>
    /\ searches = 0
    /\ failed = 0
    /\ last = NoUpdate
    /\ result = None
    /\ outcome = "none"
    /\ target = [kind |-> "quad", c |-> QZero]
    /\ args = <<QZero, QZero>>
    /\ geps = LineSearchEpsilon
    /\ gs = NoSearch
    /\ ret = QZero
    /\ evals = 0
    /\ rounds = 0
    /\ nleft = 0

\* the head of an iteration at x with matrix B: the gradient, the outcome of the first
\* check, the direction and the line search up to its loop
BeginIteration(fn, kk, B, x, eps, dist) == Call("BeginIteration", <<fn, kk, B, x, eps, dist>>)

BeginIterationImpl(fn, kk, B, x, eps, dist) ==
    LET nabla == PartialDerivative(fn, x)
        p     == Direction(kk, B, nabla)
    IN  IF NormBelow(nabla, eps)
        THEN [stop |-> TRUE, nabla |-> nabla, pk |-> << >>, gs |-> NoSearch]
        ELSE [stop |-> FALSE, nabla |-> nabla, pk |-> p,
              gs |-> GSStart([kind |-> "f", func |-> fn, x0 |-> x, pk |-> p], QZero, dist)]

\* an iteration begins: the gradient at x0, the first check, the direction, and the
\* call of the line search up to its loop
Iterate ==
    /\ caller = "bfgs"
    /\ pc = "loop"
    /\ LoopContinues(k, maximum)
    /\ \E r \in {BeginIteration(func, k, B0, x0, epsilon, distance)} :
           /\ g0' = r.nabla
           /\ IF r.stop
              THEN /\ pc' = "done"
                   /\ result' = Point(x0)
                   /\ outcome' = "check0"
                   /\ UNCHANGED <<pk, args, gs, evals, rounds, nleft, searches, failed>>
              ELSE /\ pc' = "search"
                   /\ failed' = failed + 1
                   /\ pk' = r.pk
                   /\ args' = <<QZero, distance>>
                   /\ gs' = r.gs
                   /\ evals' = r.gs.n
                   /\ rounds' = 0
                   /\ nleft' = 0
                   /\ searches' = searches + 1
                   /\ UNCHANGED <<result, outcome>>
    /\ UNCHANGED <<caller, target, geps, ret, func, epsilon, distance, maximum, k, B0, x0,
                   last>>

\* the rest of an iteration, from the value lk returned by the line search: the new
\* point, its gradient, the outcome of the second check and the update of B0
EndIteration(fn, B, x, g, p, lk, eps) == Call("EndIteration", <<fn, B, x, g, p, lk, eps>>)

EndIterationImpl(fn, B, x, g, p, lk, eps) ==
    LET x1    == VecRed(VecAdd(x, StepVector(lk, p)))
        nabla == PartialDerivative(fn, x1)
    IN  IF NormBelow(nabla, eps)
        THEN [stop |-> TRUE, x1 |-> x1, yk |-> << >>, dk |-> << >>, B1 |-> << >>]
        ELSE LET yk == VecSub(nabla, g)
                 dk == StepVector(lk, p)
             IN  [stop |-> FALSE, x1 |-> x1, yk |-> yk, dk |-> dk, B1 |-> Update(B, yk, dk)]

\* the line search returns lk: the new point, its gradient, the second check and the
\* update of B0
Advance ==
    /\ caller = "bfgs"
    /\ pc = "search"
    /\ ~GSContinue(gs, geps)
    /\ \E r \in {EndIteration(func, B0, x0, g0, pk, GSResult(gs), epsilon)} :
           IF r.stop
           THEN /\ pc' = "done"
                /\ result' = Point(r.x1)
                /\ outcome' = "check1"
                /\ UNCHANGED <<k, B0, x0, last, failed>>
           ELSE /\ pc' = "loop"
                /\ failed' = failed + 1
                /\ B0' = r.B1
                /\ x0' = r.x1
                /\ k' = k + 1
                /\ last' = [made |-> TRUE, B |-> B0, yk |-> r.yk, dk |-> r.dk, B1 |-> r.B1]
                /\ UNCHANGED <<result, outcome>>
    /\ UNCHANGED <<caller, lsvars, func, epsilon, distance, maximum, g0, pk, searches>>

\* range(maximum) is exhausted: the function ends without a return statement
Exhausted ==
    /\ caller = "bfgs"
    /\ pc = "loop"
    /\ ~LoopContinues(k, maximum)
    /\ pc' = "done"
    /\ result' = None
    /\ outcome' = "exhausted"
    /\ UNCHANGED <<caller, lsvars, func, epsilon, distance, maximum, k, B0, x0, g0, pk,
                   searches, failed, last>>

Next == Iterate \/ GSRound \/ Advance \/ Exhausted

Spec == Init /\ [][Next]_vars

(***************************************************************************)
(* The application of the operator named op to the arguments x.            *)
(***************************************************************************)
Call(op, x) ==
    CASE op = "NAdd" -> NAddImpl(x[1], x[2])
      [] op = "NSub" -> NSubImpl(x[1], x[2])
      [] op = "NMul" -> NMulImpl(x[1], x[2])
      [] op = "NCmp" -> NCmpImpl(x[1], x[2])
      [] op = "QAdd" -> QAddImpl(x[1], x[2])
      [] op = "QSub" -> QSubImpl(x[1], x[2])
      [] op = "QMul" -> QMulImpl(x[1], x[2])
      [] op = "QDiv" -> QDivImpl(x[1], x[2])
      [] op = "QCmp" -> QCmpImpl(x[1], x[2])
      [] op = "QLt" -> QLtImpl(x[1], x[2])
      [] op = "QLe" -> QLeImpl(x[1], x[2])
      [] op = "QEq" -> QEqImpl(x[1], x[2])
      [] op = "QMk" -> QMkImpl(x[1], x[2], x[3])
      [] op = "ZAdd" -> ZAddImpl(x[1], x[2])
      [] op = "ZCmp" -> ZCmpImpl(x[1], x[2])
      [] op = "NOfCols" -> NOfColsImpl(x[1])
      [] op = "NStrip" -> NStripImpl(x[1])
      [] op = "NShift" -> NShiftImpl(x[1], x[2])
      [] op = "NMulSmall" -> NMulSmallImpl(x[1], x[2])
      [] op = "NQuotDigit" -> NQuotDigitImpl(x[1], x[2])
      [] op = "NDivMod" -> NDivModImpl(x[1], x[2])
      [] op = "NGcd" -> NGcdImpl(x[1], x[2])
      [] op = "ZOfInt" -> ZOfIntImpl(x[1])
      [] op = "ZNeg" -> ZNegImpl(x[1])
      [] op = "ZShift" -> ZShiftImpl(x[1], x[2])
      [] op = "ZMulN" -> ZMulNImpl(x[1], x[2])
      [] op = "QOf" -> QOfImpl(x[1], x[2])
      [] op = "QNeg" -> QNegImpl(x[1])
      [] op = "QAbs" -> QAbsImpl(x[1])
      [] op = "QRed" -> QRedImpl(x[1])
      [] op = "Mat" -> MatImpl(x[1])
      [] op = "VecRed" -> VecRedImpl(x[1])
      [] op = "MatRed" -> MatRedImpl(x[1])
      [] op = "Objective" -> ObjectiveImpl(x[1], x[2])
      [] op = "Restriction" -> RestrictionImpl(x[1], x[2], x[3], x[4])
      [] op = "LineEval" -> LineEvalImpl(x[1], x[2])
      [] op = "GSStart" -> GSStartImpl(x[1], x[2], x[3])
      [] op = "GSContinue" -> GSContinueImpl(x[1], x[2])
      [] op = "GSLeft" -> GSLeftImpl(x[1], x[2])
      [] op = "GSRight" -> GSRightImpl(x[1], x[2])
      [] op = "GSGoesLeft" -> GSGoesLeftImpl(x[1])
      [] op = "GSResult" -> GSResultImpl(x[1])
      [] op = "Derivative" -> DerivativeImpl(x[1], x[2], x[3])
      [] op = "PartialDerivative" -> PartialDerivativeImpl(x[1], x[2])
      [] op = "Dot" -> DotImpl(x[1], x[2])
      [] op = "NormBelow" -> NormBelowImpl(x[1], x[2])
      [] op = "Identity" -> IdentityImpl(x[1])
      [] op = "MatVec" -> MatVecImpl(x[1], x[2])
      [] op = "VecMat" -> VecMatImpl(x[1], x[2])
      [] op = "Outer" -> OuterImpl(x[1], x[2])
      [] op = "MatMul" -> MatMulImpl(x[1], x[2])
      [] op = "MatAdd" -> MatAddImpl(x[1], x[2])
      [] op = "MatSub" -> MatSubImpl(x[1], x[2])
      [] op = "MatScale" -> MatScaleImpl(x[1], x[2])
      [] op = "VecNeg" -> VecNegImpl(x[1])
      [] op = "VecSub" -> VecSubImpl(x[1], x[2])
      [] op = "MatInv" -> MatInvImpl(x[1])
      [] op = "Direction" -> DirectionImpl(x[1], x[2], x[3])
      [] op = "StepVector" -> StepVectorImpl(x[1], x[2])
      [] op = "VecAdd" -> VecAddImpl(x[1], x[2])
      [] op = "Update" -> UpdateImpl(x[1], x[2], x[3])
      [] op = "BeginIteration" -> BeginIterationImpl(x[1], x[2], x[3], x[4], x[5], x[6])
      [] op = "EndIteration" -> EndIterationImpl(x[1], x[2], x[3], x[4], x[5], x[6], x[7])

(***************************************************************************)
(* Properties of the line search (SpecGS).                                 *)
(***************************************************************************)
QWithin(a, b, tol) == QLe(QAbs(QSub(a, b)), tol)

VecEq(u, v) == Len(u) = Len(v) /\ \A i \in 1..Len(u) : QEq(u[i], v[i])

MatEq(M, N) == Len(M) = Len(N) /\ \A i \in 1..Len(M) : VecEq(M[i], N[i])

\* a direct call has returned
SearchReturned == caller = "main" /\ pc = "done"

\* the distance of the two probes
ProbeGap == QSub(gs.b1, gs.a1)

\* C4: for f(x) = (x - c)^2 with c in [a0, b0] and epsilon > 0 the value returned by
\* golden_section_for_line_search is within epsilon of the minimizer c.
C4WithinEpsilon ==
    (/\ SearchReturned
     /\ QLt(QZero, geps)
     /\ QLe(args[1], target.c)
     /\ QLe(target.c, args[2]))
    => QWithin(ret, target.c, geps)

\* C7: when the search returns, the maintained interval is no wider than epsilon,
\* b0 - a0 <= epsilon, and the value returned is its midpoint (a0 + b0) / 2.
C7IntervalWidth ==
    (SearchReturned /\ QLt(QZero, geps))
    => /\ QLe(QSub(gs.b0, gs.a0), geps)
       /\ QEq(ret, QDiv(QAdd(gs.a0, gs.b0), QOf(2, 1)))

\* C8: at the head of the loop, and on return, fa is func(a1) and fb is func(b1), and
\* func has been called twice before the loop and once in every round since.
C8ReusesProbe ==
    (caller = "main" /\ pc \in {"search", "done"})
    => /\ QEq(gs.fa, LineEval(target, gs.a1))
       /\ QEq(gs.fb, LineEval(target, gs.b1))
       /\ evals = 2 + rounds

\* a search that has gone through both branches and returned
C8Witness == SearchReturned /\ nleft >= 1 /\ rounds - nleft >= 1

\* C9 as stated: a search called with epsilon <= 0 never returns.
C9NeverReturns == (caller = "main" /\ QLe(geps, QZero)) => pc # "done"

\* C9, amended: a search called with epsilon <= 0 can return; when it does, it has made
\* at least one round, its probes have met or crossed, b1 - a1 <= epsilon, and it
\* returns (a1 + b1) / 2.
C9ReturnsWhenProbesMeet ==
    (SearchReturned /\ QLe(geps, QZero))
    => /\ rounds >= 1
       /\ QLe(ProbeGap, geps)
       /\ QEq(ret, GSResult(gs))

\* a search called with epsilon <= 0 that has returned after some rounds
C9Witness == SearchReturned /\ QLe(geps, QZero) /\ rounds > 0

(***************************************************************************)
(* Properties of bfgs_algorithm (Spec).                                    *)
(***************************************************************************)
\* the call has returned
Returned == caller = "bfgs" /\ pc = "done"

\* it returned from one of the two gradient-norm checks
Converged == outcome \in {"check0", "check1"}

Origin(fn) == Vec([j \in 1..NFeatures(fn) |-> QZero])

\* the minimizer of sum_i w[i] * (x[i] + s[i])^2 / q with every w[i] > 0 and q > 0
Minimizer(fn) == Vec([j \in 1..NFeatures(fn) |-> QOf(-fn.s[j], 1)])

\* the default epsilon=1e-6
DefaultEpsilon == QOf(1, 1000000)

\* the tolerance 1e-4 within which the minimizer is to be met
Tolerance == QOf(1, 10000)

\* C1: called with the default epsilon and distance on a strictly convex quadratic,
\* bfgs_algorithm returns from a gradient-norm check with a point within 1e-4 of the
\* minimizer in every coordinate (maximum being the largest one modelled).
C1Converges ==
    (Returned /\ QEq(epsilon, DefaultEpsilon) /\ maximum = MaxMaximum)
    => /\ Converged
       /\ ~result.none
       /\ \A j \in 1..NFeatures(func) :
              QWithin(result.pt[j], Minimizer(func)[j], Tolerance)

\* C2: when maximum >= 1 iterations have been made and neither check succeeded, the
\* call returns the last point x0.
C2ReturnsLastPoint ==
    (Returned /\ outcome = "exhausted" /\ maximum >= 1) => result = Point(x0)

\* C3: when epsilon exceeds the gradient norm at the origin, the call makes no line
\* search and returns the origin, whatever objective, distance and maximum.
C3ImmediateReturn ==
    (caller = "bfgs" /\ NormBelow(PartialDerivative(func, Origin(func)), epsilon))
    => /\ searches = 0
       /\ pc = "done" => result = Point(Origin(func))

\* C5: the update is B1 = B0 + (yk yk^T)/(yk^T dk) - (B0 dk dk^T B0)/(dk^T B0 dk),
\* the second rank-one term being subtracted.
C5SubtractsSecondTerm ==
    last.made
    => MatEq(last.B1,
             MatSub(MatAdd(last.B, MatScale(Outer(last.yk, last.yk), Dot(last.yk, last.dk))),
                    MatScale(MatMul(Outer(MatVec(last.B, last.dk), last.dk), last.B),
                             Dot(VecMat(last.dk, last.B), last.dk))))

\* C6: the updated matrix satisfies the secant condition B1 dk = yk.
C6SecantCondition == last.made => VecEq(MatVec(last.B1, last.dk), last.yk)

\* C10: the call never begins more than maximum iterations and makes at most one line
\* search in each; it returns a point only from a check that found the gradient norm
\* at that point strictly below epsilon; it ends for lack of iterations only after
\* exactly maximum iterations in which both checks failed; and nothing runs after the
\* return.
C10StateMachine ==
    caller = "bfgs"
    => /\ k <= maximum
       /\ searches <= maximum
       /\ searches = k + (IF pc = "search" \/ outcome = "check1" THEN 1 ELSE 0)
       /\ pc # "done" => outcome = "none"
       /\ pc = "done"
          => /\ outcome \in {"check0", "check1", "exhausted"}
             /\ Converged
                => /\ ~result.none
                   /\ LET nabla == PartialDerivative(func, result.pt)
                      IN  QLt(Dot(nabla, nabla), QMul(epsilon, epsilon))
             /\ outcome = "exhausted"
                => /\ result.none
                   /\ k = maximum
                   /\ failed = 2 * maximum
             /\ ~ENABLED Next

\* a call that returned from the second check of its second iteration
C10Witness == Returned /\ outcome = "check1" /\ k = 1 /\ searches = 2

=============================================================================
